---- MODULE Spec2Model ----
(***************************************************************************)
(* Model of nsupdate/api/views.py: the dyndns2 update endpoint            *)
(* (NicUpdateView, AuthorizedNicUpdateView, _update) and its helpers.     *)
(* Requests are handled one at a time; every handler is one action.       *)
(***************************************************************************)
EXTENDS Integers, Sequences, FiniteSets, TLC

\* Number of requests handled in one behaviour.
MaxRequests == 2

-----------------------------------------------------------------------------
\* Python values.  An optional value (dict.get, a function that may return
\* None) is None or Some(v); `x is None` is x = None.
None == <<>>
Some(v) == <<v>>

\* dict.get(key, default)
GetDefault(opt, default) == IF opt = None THEN default ELSE opt[1]

-----------------------------------------------------------------------------
\* The host directory (nsupdate.main.models.Host).  Record 1 always exists;
\* records 2, 3 and 4 share an FQDN, so the directory may hold zero, one or
\* more rows for "b.example"; records 3 and 4 also share the owner.
RecIds == {1, 2, 3, 4}

HostRow ==
    [r \in RecIds |->
        CASE r = 1 -> [fqdn |-> "a.example", created_by |-> "alice", secret |-> "s1"]
          [] r = 2 -> [fqdn |-> "b.example", created_by |-> "bob",   secret |-> "s2"]
          [] r = 3 -> [fqdn |-> "b.example", created_by |-> "alice", secret |-> "s3"]
          [] r = 4 -> [fqdn |-> "b.example", created_by |-> "alice", secret |-> "s4"]]

Fqdns == {"a.example", "b.example"}
Users == {"alice", "bob"}
Directories == {{1}, {1, 2}, {1, 3}, {1, 2, 3}}

\* django.contrib.auth.hashers: the stored secret is a hash of the password.
make_password(password) == <<"hash", password>>
check_password(password, password_hash) == make_password(password) = password_hash

update_secret(r) == make_password(HostRow[r].secret)

-----------------------------------------------------------------------------
\* IP literals of the model and their classification.
IPv4Literals == {"192.0.2.1", "192.0.2.2"}
IPv6Literals == {"2001:db8::1"}
BadLiterals  == {"bogus", ""}
Kinds == {"ipv4", "ipv6"}
NoIp == "-"

\* dnstools.check_ip(ipaddr, keys): the family of a valid literal, or
\* InvalidIPError.
check_ip(ipaddr, keys) ==
    IF ipaddr \in IPv4Literals /\ "ipv4" \in keys THEN [exc |-> "", kind |-> "ipv4"]
    ELSE IF ipaddr \in IPv6Literals /\ "ipv6" \in keys THEN [exc |-> "", kind |-> "ipv6"]
    ELSE [exc |-> "InvalidIPError", kind |-> ""]

-----------------------------------------------------------------------------
VARIABLES
    present,      \* the record ids in the host directory
    last_update,  \* last_update[r][kind]: request number of the last poke, 0 = never
    dns,          \* dns[fqdn][kind]: the address the zone holds
    nreq,         \* number of requests handled so far
    request,      \* the request handled last
    cred,         \* None, or Some of what basic_authenticate gave for it
    ret,          \* what the view returned, or the exception it raised
    disp,         \* None, or Some of the arguments _update was called with
    calls,        \* the poke/update calls made for the last request, in order
    probe,        \* the last direct call of a verifier and what it returned
    sessions,     \* the session store: sessions[key] is None or Some(session dict)
    hit,          \* the last request to a session view, with its response
    clock,        \* what now() returned last
    detected,     \* detected[key][kind]: None, or Some(address DetectIpView wrote last)
    procs,        \* procs[p]: the dispatch that execution context p is running
    changes       \* the changes made to the zone, in order

core == <<last_update, dns, nreq, request, cred, ret, disp, calls>>
sessv == <<sessions, hit, clock, detected>>
concv == <<procs, changes>>
aux == <<probe, sessv, concv>>
vars == <<present, core, aux>>

\* Host.filter_by_fqdn(fqdn, **kwargs): the rows with that exact FQDN (and
\* owner, when given), as a list.
RECURSIVE RowList(_)
RowList(S) ==
    IF S = {} THEN <<>>
    ELSE LET r == CHOOSE x \in S : \A y \in S : x <= y
         IN <<r>> \o RowList(S \ {r})

filter_by_fqdn(fqdn, created_by) ==
    RowList({r \in present :
                /\ HostRow[r].fqdn = fqdn
                /\ (created_by = None \/ HostRow[r].created_by = created_by[1])})

-----------------------------------------------------------------------------
\* Text that the code splits is a sequence of pieces in which the separator
\* is a piece of its own: "Basic abc" is <<"Basic", " ", "abc">>.
RECURSIVE Join(_)
Join(pieces) ==
    IF pieces = <<>> THEN "" ELSE Head(pieces) \o Join(Tail(pieces))

FirstIndex(s, sep) ==
    IF \E i \in 1..Len(s) : s[i] = sep
    THEN CHOOSE i \in 1..Len(s) : s[i] = sep /\ \A j \in 1..(i - 1) : s[j] # sep
    ELSE 0

\* s.split(sep, 1): one part when sep does not occur, else two.
split1(s, sep) ==
    LET i == FirstIndex(s, sep)
    IN IF i = 0 THEN <<s>>
       ELSE <<SubSeq(s, 1, i - 1), SubSeq(s, i + 1, Len(s))>>

\* s.strip()
RECURSIVE lstrip(_)
lstrip(s) == IF s # <<>> /\ Head(s) = " " THEN lstrip(Tail(s)) ELSE s
RECURSIVE rstrip(_)
rstrip(s) ==
    IF s # <<>> /\ s[Len(s)] = " " THEN rstrip(SubSeq(s, 1, Len(s) - 1)) ELSE s
strip(s) == rstrip(lstrip(s))

\* s.lower() on the scheme tokens of the model
lower(s) ==
    CASE s = "Basic" -> "basic"
      [] s = "Digest" -> "digest"
      [] OTHER -> s

\* s.decode('base64'): the decoded text, or binascii.Error (incorrect padding).
Base64Table ==
    [blob \in {"YS5leGFtcGxlOnMx", "YS5leGFtcGxlOnp6", "Yi5leGFtcGxlOnMy", "YS5leGFtcGxl"} |->
        CASE blob = "YS5leGFtcGxlOnMx" -> <<"a.example", ":", "s1">>
          [] blob = "YS5leGFtcGxlOnp6" -> <<"a.example", ":", "zz">>
          [] blob = "Yi5leGFtcGxlOnMy" -> <<"b.example", ":", "s2">>
          [] blob = "YS5leGFtcGxl"     -> <<"a.example">>]

decode_base64(s) ==
    LET blob == Join(s)
    IN IF blob \in DOMAIN Base64Table
       THEN [exc |-> "", text |-> Base64Table[blob]]
       ELSE [exc |-> "binascii.Error", text |-> <<>>]

\* The result of a call that returns a (username, password) pair, returns
\* None, or raises.
Credentials(username, password) ==
    [exc |-> "", none |-> FALSE, username |-> username, password |-> password]
NoCredentials == [exc |-> "", none |-> TRUE, username |-> "", password |-> ""]
RaisedIn(exc) == [exc |-> exc, none |-> FALSE, username |-> "", password |-> ""]

basic_authenticate(auth) ==
    LET parts == split1(auth, " ")
    IN IF Len(parts) # 2 THEN RaisedIn("ValueError")
       ELSE LET authmeth == Join(parts[1])
                decoded == decode_base64(strip(parts[2]))
                fields == split1(decoded.text, ":")
            IN IF lower(authmeth) # "basic" THEN NoCredentials
               ELSE IF decoded.exc # "" THEN RaisedIn(decoded.exc)
               ELSE IF Len(fields) # 2 THEN RaisedIn("ValueError")
               ELSE Credentials(Join(fields[1]), Join(fields[2]))

-----------------------------------------------------------------------------
\* What a view produced: an HttpResponse, another return value, or an exception.
Response(content) ==
    [type |-> "HttpResponse", status_code |-> 200, content |-> content,
     content_type |-> "text/plain", www_authenticate |-> ""]

\* Faulty variant of basic_challenge: the status code is left at 200.
basic_challenge_status_unset(realm, content) ==
    [Response(content) EXCEPT
        !.www_authenticate = "Basic realm=\"" \o realm \o "\""]

basic_challenge(realm, content) ==
    [Response(content) EXCEPT
        !.www_authenticate = "Basic realm=\"" \o realm \o "\"",
        !.status_code = 401]

ReturnedFalse ==
    [type |-> "False", status_code |-> 0, content |-> "",
     content_type |-> "", www_authenticate |-> ""]

Raised(exc) ==
    [type |-> "raise", status_code |-> 0, content |-> exc,
     content_type |-> "", www_authenticate |-> ""]

NoReturn ==
    [type |-> "", status_code |-> 0, content |-> "",
     content_type |-> "", www_authenticate |-> ""]

\* settings.BAD_AGENTS
BAD_AGENTS == {"badbot"}

-----------------------------------------------------------------------------
\* Faulty variant of check_api_auth: with several rows for the FQDN the first one
\* decides.
check_api_auth_first_row(username, password) ==
    LET hosts == filter_by_fqdn(username, None)
    IN IF Len(hosts) = 0 THEN FALSE
       ELSE check_password(password, update_secret(hosts[1]))

\* Faulty variant of check_api_auth: any row with the right secret will do.
check_api_auth_any_row(username, password) ==
    LET hosts == filter_by_fqdn(username, None)
    IN \E i \in 1..Len(hosts) : check_password(password, update_secret(hosts[i]))

check_api_auth(username, password) ==
    LET fqdn == username
        hosts == filter_by_fqdn(fqdn, None)
        num_hosts == Len(hosts)
    IN IF num_hosts = 0 THEN FALSE
       ELSE IF num_hosts > 1 THEN FALSE
       ELSE check_password(password, update_secret(hosts[1]))

\* Faulty variant of check_session_auth: the owner is not part of the lookup.
check_session_auth_any_owner(user, hostname) ==
    Len(filter_by_fqdn(hostname, None)) = 1

\* Faulty variant of check_session_auth: one row or more will do.
check_session_auth_some_row(user, hostname) ==
    Len(filter_by_fqdn(hostname, Some(user))) >= 1

check_session_auth(user, hostname) ==
    LET fqdn == hostname
        hosts == filter_by_fqdn(fqdn, Some(user))
        num_hosts == Len(hosts)
    IN IF num_hosts = 0 THEN FALSE
       ELSE IF num_hosts > 1 THEN FALSE
       ELSE TRUE

-----------------------------------------------------------------------------
\* str(ipaddr): a byte string is returned as it is; a unicode query value
\* with a non-ASCII character raises UnicodeEncodeError.
NonAsciiLiterals == {"192.0.2.<U+0661>"}
str(x) ==
    IF x \in NonAsciiLiterals THEN [exc |-> "UnicodeEncodeError", val |-> ""]
    ELSE [exc |-> "", val |-> x]

\* Host.poke(kind): mark the family of the row as confirmed now.
poke(r, kind) == [last_update EXCEPT ![r][kind] = nreq + 1]

PokeCall(r, kind) ==
    [op |-> "poke", rec |-> r, hostname |-> HostRow[r].fqdn, arg |-> kind]
UpdateCall(hostname, ipaddr) ==
    [op |-> "update", rec |-> 0, hostname |-> hostname, arg |-> ipaddr]

\* dnstools.update(fqdn, ipaddr): the outcomes of one call.  The zone takes
\* the address; SameIpError when the zone already holds it; any other failure
\* (nameserver unreachable, refused) leaves the zone as it is.
update(hostname, ipaddr) ==
    LET kind == check_ip(ipaddr, Kinds).kind
    IN {[exc |-> "UpdateFailure", zone |-> dns]}
       \cup (IF dns[hostname][kind] = ipaddr
             THEN {[exc |-> "SameIpError", zone |-> dns]}
             ELSE {[exc |-> "", zone |-> [dns EXCEPT ![hostname][kind] = ipaddr]]})

\* The end of a view that called neither poke nor update.
Finish(r, d) ==
    /\ ret' = r
    /\ disp' = d
    /\ calls' = <<>>
    /\ UNCHANGED <<last_update, dns>>

\* Faulty variant of update_response: a no-change update is reported as a change.
update_response_always_good(exc, ipaddr) ==
    IF exc = "" \/ exc = "SameIpError" THEN Response("good " \o ipaddr)
    ELSE Raised(exc)

\* The try/except around the update call: what the dispatcher returns for
\* each way the call can end.
update_response(exc, ipaddr) ==
    IF exc = "" THEN Response("good " \o ipaddr)
    ELSE IF exc = "SameIpError" THEN Response("nochg " \o ipaddr)
    ELSE Raised(exc)

\* Faulty variant of _update: the host row is poked after the DNS update.
_update_poke_after(hostname, ipaddr_in, agent) ==
    LET converted == str(ipaddr_in)
        ipaddr == converted.val
        d == Some([hostname |-> hostname, ipaddr |-> ipaddr_in])
        hosts == filter_by_fqdn(hostname, None)
        classified == check_ip(ipaddr, {"ipv4", "ipv6"})
    IN IF converted.exc # "" THEN Finish(Raised(converted.exc), d)
       ELSE IF Len(hosts) # 1 THEN Finish(ReturnedFalse, d)
       ELSE IF classified.exc # "" THEN Finish(Raised(classified.exc), d)
       ELSE \E outcome \in update(hostname, ipaddr) :
               /\ disp' = d
               /\ last_update' = poke(hosts[1], classified.kind)
               /\ calls' = <<UpdateCall(hostname, ipaddr),
                             PokeCall(hosts[1], classified.kind)>>
               /\ dns' = outcome.zone
               /\ ret' = update_response(outcome.exc, ipaddr)

\* Faulty variant of _update: an address that does not classify is treated as ipv4
\* and handed to the update call, which fails on it.
_update_unclassified(hostname, ipaddr_in, agent) ==
    LET converted == str(ipaddr_in)
        ipaddr == converted.val
        d == Some([hostname |-> hostname, ipaddr |-> ipaddr_in])
        hosts == filter_by_fqdn(hostname, None)
        classified == check_ip(ipaddr, {"ipv4", "ipv6"})
        kind == IF classified.exc # "" THEN "ipv4" ELSE classified.kind
    IN IF converted.exc # "" THEN Finish(Raised(converted.exc), d)
       ELSE IF Len(hosts) # 1 THEN Finish(ReturnedFalse, d)
       ELSE \E outcome \in (IF classified.exc # ""
                            THEN {[exc |-> "UpdateFailure", zone |-> dns]}
                            ELSE update(hostname, ipaddr)) :
               /\ disp' = d
               /\ last_update' = poke(hosts[1], kind)
               /\ calls' = <<PokeCall(hosts[1], kind), UpdateCall(hostname, ipaddr)>>
               /\ dns' = outcome.zone
               /\ ret' = update_response(outcome.exc, ipaddr)

\* Faulty variant of _update: the poke is undone when the update call fails.
_update_rollback(hostname, ipaddr_in, agent) ==
    LET converted == str(ipaddr_in)
        ipaddr == converted.val
        d == Some([hostname |-> hostname, ipaddr |-> ipaddr_in])
        hosts == filter_by_fqdn(hostname, None)
        classified == check_ip(ipaddr, {"ipv4", "ipv6"})
    IN IF converted.exc # "" THEN Finish(Raised(converted.exc), d)
       ELSE IF Len(hosts) # 1 THEN Finish(ReturnedFalse, d)
       ELSE IF classified.exc # "" THEN Finish(Raised(classified.exc), d)
       ELSE \E outcome \in update(hostname, ipaddr) :
               /\ disp' = d
               /\ last_update' = IF outcome.exc = "UpdateFailure" THEN last_update
                                 ELSE poke(hosts[1], classified.kind)
               /\ calls' = <<PokeCall(hosts[1], classified.kind),
                             UpdateCall(hostname, ipaddr)>>
               /\ dns' = outcome.zone
               /\ ret' = update_response(outcome.exc, ipaddr)

_update(hostname, ipaddr_in, agent) ==
    LET converted == str(ipaddr_in)
        ipaddr == converted.val
        d == Some([hostname |-> hostname, ipaddr |-> ipaddr_in])
        hosts == filter_by_fqdn(hostname, None)
        num_hosts == Len(hosts)
        classified == check_ip(ipaddr, {"ipv4", "ipv6"})
        kind == classified.kind
    IN IF converted.exc # "" THEN Finish(Raised(converted.exc), d)
       ELSE IF num_hosts = 0 THEN Finish(ReturnedFalse, d)
       ELSE IF num_hosts > 1 THEN Finish(ReturnedFalse, d)
       ELSE IF classified.exc # "" THEN Finish(Raised(classified.exc), d)
       ELSE \E outcome \in update(hostname, ipaddr) :
               /\ disp' = d
               /\ last_update' = poke(hosts[1], kind)
               /\ calls' = <<PokeCall(hosts[1], kind), UpdateCall(hostname, ipaddr)>>
               /\ dns' = outcome.zone
               /\ ret' = update_response(outcome.exc, ipaddr)

-----------------------------------------------------------------------------
\* The Authorization header values of the model.
AuthHeaders ==
    { <<"Basic", " ", "YS5leGFtcGxlOnMx">>,     \* a.example:s1
      <<"basic", " ", "Yi5leGFtcGxlOnMy">>,     \* b.example:s2
      <<"Basic", " ", "YS5leGFtcGxl">>,         \* a.example, no colon
      <<"Basic", " ", "YS5leGFtcGxlOnM">>,      \* incorrect padding
      <<"Basic", " ", "YS5leGFtcGxlOnp6">>,     \* a.example:zz
      <<"Digest", " ", "abc">>,
      <<"Basic">> }

\* basic_authenticate is a function of the header alone: its values on the
\* headers of the model, computed once.
ParsedHeaders == [h \in AuthHeaders |-> basic_authenticate(h)]

\* Faulty variant of NicUpdateView: the agent blacklist is not consulted.
NicUpdateView_agent_unchecked(req) ==
    LET hostname == req.GET.hostname
        agent == GetDefault(req.META.HTTP_USER_AGENT, "unknown")
        auth == req.META.HTTP_AUTHORIZATION
        parsed == ParsedHeaders[auth[1]]
        hostname2 == IF hostname = None THEN parsed.username ELSE hostname[1]
        myip == req.GET.myip
        ipaddr == IF myip = None THEN req.META.REMOTE_ADDR ELSE myip[1]
    IN /\ nreq < MaxRequests
       /\ req.view = "NicUpdateView"
       /\ request' = req
       /\ cred' = IF auth = None THEN None ELSE Some(parsed)
       /\ nreq' = nreq + 1
       /\ UNCHANGED <<present, aux>>
       /\ IF auth = None
          THEN Finish(basic_challenge("authenticate to update DNS", "noauth"), None)
          ELSE IF parsed.exc # "" THEN Finish(Raised(parsed.exc), None)
          ELSE IF parsed.none THEN Finish(Raised("TypeError"), None)
          ELSE IF ~check_api_auth(parsed.username, parsed.password)
               THEN Finish(basic_challenge("authenticate to update DNS", "badauth"), None)
          ELSE _update(hostname2, ipaddr, agent)

\* Faulty variant of NicUpdateView: the hostname parameter is not read, the
\* username is always the target.
NicUpdateView_username_only(req) ==
    LET agent == GetDefault(req.META.HTTP_USER_AGENT, "unknown")
        auth == req.META.HTTP_AUTHORIZATION
        parsed == ParsedHeaders[auth[1]]
        myip == req.GET.myip
        ipaddr == IF myip = None THEN req.META.REMOTE_ADDR ELSE myip[1]
    IN /\ nreq < MaxRequests
       /\ req.view = "NicUpdateView"
       /\ request' = req
       /\ cred' = IF auth = None THEN None ELSE Some(parsed)
       /\ nreq' = nreq + 1
       /\ UNCHANGED <<present, aux>>
       /\ IF auth = None
          THEN Finish(basic_challenge("authenticate to update DNS", "noauth"), None)
          ELSE IF parsed.exc # "" THEN Finish(Raised(parsed.exc), None)
          ELSE IF parsed.none THEN Finish(Raised("TypeError"), None)
          ELSE IF ~check_api_auth(parsed.username, parsed.password)
               THEN Finish(basic_challenge("authenticate to update DNS", "badauth"), None)
          ELSE IF agent \in BAD_AGENTS THEN Finish(Response("badagent"), None)
          ELSE _update(parsed.username, ipaddr, agent)

NicUpdateView(req) ==
    LET hostname == req.GET.hostname
        agent == GetDefault(req.META.HTTP_USER_AGENT, "unknown")
        auth == req.META.HTTP_AUTHORIZATION
        parsed == ParsedHeaders[auth[1]]
        username == parsed.username
        password == parsed.password
        hostname2 == IF hostname = None THEN username ELSE hostname[1]
        myip == req.GET.myip
        ipaddr == IF myip = None THEN req.META.REMOTE_ADDR ELSE myip[1]
    IN /\ nreq < MaxRequests
       /\ req.view = "NicUpdateView"
       /\ request' = req
       /\ cred' = IF auth = None THEN None ELSE Some(parsed)
       /\ nreq' = nreq + 1
       /\ UNCHANGED <<present, aux>>
       /\ IF auth = None
          THEN Finish(basic_challenge("authenticate to update DNS", "noauth"), None)
          ELSE IF parsed.exc # "" THEN Finish(Raised(parsed.exc), None)
          ELSE IF parsed.none THEN Finish(Raised("TypeError"), None)
          ELSE IF ~check_api_auth(username, password)
               THEN Finish(basic_challenge("authenticate to update DNS", "badauth"), None)
          ELSE IF agent \in BAD_AGENTS THEN Finish(Response("badagent"), None)
          ELSE _update(hostname2, ipaddr, agent)

\* Faulty variant of AuthorizedNicUpdateView: only an omitted myip falls back
\* to the connection address, an empty one is dispatched.
AuthorizedNicUpdateView_empty_kept(req) ==
    LET agent == GetDefault(req.META.HTTP_USER_AGENT, "unknown")
        hostname == req.GET.hostname
        myip == req.GET.myip
        ipaddr == IF myip = None THEN req.META.REMOTE_ADDR ELSE myip[1]
    IN /\ nreq < MaxRequests
       /\ req.view = "AuthorizedNicUpdateView"
       /\ request' = req
       /\ cred' = None
       /\ nreq' = nreq + 1
       /\ UNCHANGED <<present, aux>>
       /\ IF hostname = None THEN Finish(Response("nohost"), None)
          ELSE IF ~check_session_auth(req.user, hostname[1])
               THEN Finish(Response("nohost"), None)
          ELSE _update(hostname[1], ipaddr, agent)

AuthorizedNicUpdateView(req) ==
    LET agent == GetDefault(req.META.HTTP_USER_AGENT, "unknown")
        hostname == req.GET.hostname
        myip == req.GET.myip
        ipaddr == IF myip = None \/ myip = Some("")
                  THEN req.META.REMOTE_ADDR ELSE myip[1]
    IN /\ nreq < MaxRequests
       /\ req.view = "AuthorizedNicUpdateView"
       /\ request' = req
       /\ cred' = None
       /\ nreq' = nreq + 1
       /\ UNCHANGED <<present, aux>>
       /\ IF hostname = None THEN Finish(Response("nohost"), None)
          ELSE IF ~check_session_auth(req.user, hostname[1])
               THEN Finish(Response("nohost"), None)
          ELSE _update(hostname[1], ipaddr, agent)

-----------------------------------------------------------------------------
\* The requests of the model.
Opt(S) == {None} \cup {Some(x) : x \in S}

MyIps == {"192.0.2.1", "2001:db8::1"} \cup BadLiterals \cup NonAsciiLiterals
RemoteAddrs == {"192.0.2.2"}
Agents == {"badbot"}

NicRequests ==
    [view : {"NicUpdateView"},
     user : {"anonymous"},
     GET  : [hostname : Opt(Fqdns), myip : Opt(MyIps)],
     META : [HTTP_USER_AGENT : Opt(Agents),
             HTTP_AUTHORIZATION : Opt(AuthHeaders),
             REMOTE_ADDR : RemoteAddrs]]

AuthorizedRequests ==
    [view : {"AuthorizedNicUpdateView"},
     user : Users,
     GET  : [hostname : Opt(Fqdns), myip : Opt(MyIps)],
     META : [HTTP_USER_AGENT : {None},
             HTTP_AUTHORIZATION : {None},
             REMOTE_ADDR : RemoteAddrs]]

NoRequest ==
    [view |-> "", user |-> "",
     GET |-> [hostname |-> None, myip |-> None],
     META |-> [HTTP_USER_AGENT |-> None, HTTP_AUTHORIZATION |-> None,
               REMOTE_ADDR |-> ""]]

NoProbe == [fn |-> "", a |-> "", b |-> "", result |-> FALSE]

CoreInit ==
    /\ last_update = [r \in RecIds |-> [k \in Kinds |-> 0]]
    /\ dns = [f \in Fqdns |-> [k \in Kinds |-> NoIp]]
    /\ nreq = 0
    /\ request = NoRequest
    /\ cred = None
    /\ ret = NoReturn
    /\ disp = None
    /\ calls = <<>>

\* django.contrib.sessions: a session is a dict; the keys the views use, and
\* one the login put there.
SessionFields == {"ipv4", "ipv6", "ipv4_timestamp", "ipv6_timestamp", "_auth_user_id"}
EmptySession == [f \in SessionFields |-> None]
ExistingKeys == {"k1", "k2"}
NewKeys == {"n1"}
SessionKeys == ExistingKeys \cup NewKeys

\* The execution contexts of the concurrent dispatches.
NumProcs == 2
Procs == 1..NumProcs
Idle ==
    [pc |-> "idle", hostname |-> "", ipaddr |-> "", row |-> 0, kind |-> "",
     seen |-> "", ret |-> NoReturn]

NoHit ==
    [view |-> "", secret |-> None, cookie |-> None, REMOTE_ADDR |-> "",
     response |-> NoReturn]

AuxInit ==
    /\ probe = NoProbe
    /\ sessions = [k \in SessionKeys |->
                      IF k \in ExistingKeys
                      THEN Some([EmptySession EXCEPT !["_auth_user_id"] = Some(k)])
                      ELSE None]
    /\ hit = NoHit
    /\ clock = 0
    /\ detected = [k \in SessionKeys |-> [kind \in Kinds |-> None]]
    /\ procs = [p \in Procs |-> Idle]
    /\ changes = <<>>

Init ==
    /\ present \in Directories
    /\ CoreInit
    /\ AuxInit

Next ==
    \/ \E req \in NicRequests : NicUpdateView(req)
    \/ \E req \in AuthorizedRequests : AuthorizedNicUpdateView(req)

Spec == Init /\ [][Next]_vars

-----------------------------------------------------------------------------
\* The two verifiers called directly, on any directory: the arguments are
\* drawn from the names and passwords below.
ProbeNames == Fqdns \cup {"c.example"}
ProbePasswords == {"s1", "s2", "s3", "zz"}

CallApiAuth(username, password) ==
    /\ probe' = [fn |-> "check_api_auth", a |-> username, b |-> password,
                 result |-> check_api_auth(username, password)]
    /\ UNCHANGED <<present, core, sessv, concv>>

CallSessionAuth(user, hostname) ==
    /\ probe' = [fn |-> "check_session_auth", a |-> user, b |-> hostname,
                 result |-> check_session_auth(user, hostname)]
    /\ UNCHANGED <<present, core, sessv, concv>>

InitAuth ==
    /\ present \in SUBSET RecIds
    /\ CoreInit
    /\ AuxInit

NextAuth ==
    \/ \E u \in ProbeNames, p \in ProbePasswords : CallApiAuth(u, p)
    \/ \E u \in Users, h \in ProbeNames : CallSessionAuth(u, h)

SpecAuth == InitAuth /\ [][NextAuth]_vars

-----------------------------------------------------------------------------
\* The session views.  MaxDetect bounds the number of DetectIpView requests.
MaxDetect == 3

\* HttpResponse(content, content_type=..., status=...)
DEFAULT_CONTENT_TYPE == "text/html; charset=utf-8"
HttpResponse(content, content_type, status) ==
    [type |-> "HttpResponse", status_code |-> status, content |-> content,
     content_type |-> content_type, www_authenticate |-> ""]

\* SessionStore(session_key=secret): the session with that key when the
\* store has one, else a session created under a new key at first access.
Exists(key) ==
    /\ key # None
    /\ key[1] \in SessionKeys
    /\ sessions[key[1]] # None
UnusedKeys == {k \in NewKeys : sessions[k] = None}
SessionStore(key) ==
    IF Exists(key) THEN {key[1]} ELSE UnusedKeys

\* request.session: the dict of the cookie's session, empty without one.
RequestSession(cookie) ==
    IF Exists(cookie) THEN sessions[cookie[1]][1] ELSE EmptySession

\* json.dumps of a dict with the keys ipv4 and ipv6; the order of the keys
\* is the dict's, either may come first.
json_dumps(ipv4, ipv6) ==
    { "{\"ipv4\": \"" \o ipv4 \o "\", \"ipv6\": \"" \o ipv6 \o "\"}",
      "{\"ipv6\": \"" \o ipv6 \o "\", \"ipv4\": \"" \o ipv4 \o "\"}" }

\* Faulty variant of DetectIpView: the requester's own session is written.
DetectIpView_cookie_session(req) ==
    LET ipaddr == req.REMOTE_ADDR
        classified == check_ip(ipaddr, Kinds)
        key == classified.kind
    IN /\ clock < MaxDetect
       /\ req.view = "DetectIpView"
       /\ clock' = clock + 1
       /\ UNCHANGED <<present, core, probe, concv>>
       /\ IF classified.exc # ""
          THEN /\ hit' = [req EXCEPT !.response = Raised(classified.exc)]
               /\ UNCHANGED <<sessions, detected>>
          ELSE \E k \in SessionStore(req.cookie) :
                  LET s == IF sessions[k] = None THEN EmptySession ELSE sessions[k][1]
                  IN /\ sessions' = [sessions EXCEPT ![k] =
                            Some([s EXCEPT ![key] = Some(ipaddr),
                                           ![key \o "_timestamp"] = Some(clock')])]
                     /\ detected' = [detected EXCEPT ![k][key] = Some(ipaddr)]
                     /\ hit' = [req EXCEPT !.response =
                                  HttpResponse("", DEFAULT_CONTENT_TYPE, 204)]

DetectIpView(req) ==
    LET ipaddr == req.REMOTE_ADDR
        classified == check_ip(ipaddr, Kinds)
        key == classified.kind
    IN /\ clock < MaxDetect
       /\ req.view = "DetectIpView"
       /\ clock' = clock + 1
       /\ UNCHANGED <<present, core, probe, concv>>
       /\ IF classified.exc # ""
          THEN /\ hit' = [req EXCEPT !.response = Raised(classified.exc)]
               /\ UNCHANGED <<sessions, detected>>
          ELSE \E k \in SessionStore(req.secret) :
                  LET s == IF sessions[k] = None THEN EmptySession ELSE sessions[k][1]
                  IN /\ sessions' = [sessions EXCEPT ![k] =
                            Some([s EXCEPT ![key] = Some(ipaddr),
                                           ![key \o "_timestamp"] = Some(clock')])]
                     /\ detected' = [detected EXCEPT ![k][key] = Some(ipaddr)]
                     /\ hit' = [req EXCEPT !.response =
                                  HttpResponse("", DEFAULT_CONTENT_TYPE, 204)]

\* Faulty variant of AjaxGetIps: a missing key is sent as an empty address.
AjaxGetIps_partial(req) ==
    LET session == RequestSession(req.cookie)
    IN /\ req.view = "AjaxGetIps"
       /\ UNCHANGED <<present, core, probe, concv, sessions, clock, detected>>
       /\ \E text \in json_dumps(GetDefault(session["ipv4"], ""),
                                  GetDefault(session["ipv6"], "")) :
              hit' = [req EXCEPT !.response =
                         HttpResponse(text, "application/json", 200)]

AjaxGetIps(req) ==
    LET session == RequestSession(req.cookie)
    IN /\ req.view = "AjaxGetIps"
       /\ UNCHANGED <<present, core, probe, concv, sessions, clock, detected>>
       /\ IF session["ipv4"] = None \/ session["ipv6"] = None
          THEN hit' = [req EXCEPT !.response = Raised("KeyError")]
          ELSE \E text \in json_dumps(session["ipv4"][1], session["ipv6"][1]) :
                  hit' = [req EXCEPT !.response =
                             HttpResponse(text, "application/json", 200)]

Secrets == Opt(ExistingKeys \cup {"stale"})
Cookies == Opt(ExistingKeys)
DetectAddrs == {"192.0.2.1", "192.0.2.2", "2001:db8::1", ""}

DetectRequests ==
    [view : {"DetectIpView"}, secret : Secrets, cookie : {None, Some("k2")},
     REMOTE_ADDR : DetectAddrs, response : {NoReturn}]
AjaxRequests ==
    [view : {"AjaxGetIps"}, secret : {None}, cookie : Cookies,
     REMOTE_ADDR : {"192.0.2.1"}, response : {NoReturn}]

InitDetect ==
    /\ present \in Directories
    /\ CoreInit
    /\ AuxInit

NextDetect ==
    \/ \E req \in DetectRequests : DetectIpView(req)
    \/ \E req \in AjaxRequests : AjaxGetIps(req)

SpecDetect == InitDetect /\ [][NextDetect]_vars

-----------------------------------------------------------------------------
\* Concurrent dispatches: every execution context runs _update once, and
\* the contexts interleave at the calls that touch the directory and the
\* zone.  The update call is atomic, and what follows it in _update (the
\* choice of the answer) touches nothing shared, so it is part of that step.
ConcIps == IPv4Literals \cup {"bogus"}
others == <<present, nreq, request, cred, ret, disp, calls, probe, sessv>>

\* _update up to the classification of the address.
Lookup(p, hostname, ipaddr_in) ==
    LET converted == str(ipaddr_in)
        ipaddr == converted.val
        hosts == filter_by_fqdn(hostname, None)
        num_hosts == Len(hosts)
        classified == check_ip(ipaddr, {"ipv4", "ipv6"})
        mine == [Idle EXCEPT !.hostname = hostname, !.ipaddr = ipaddr_in]
    IN /\ procs[p].pc = "idle"
       /\ procs' = [procs EXCEPT ![p] =
             IF converted.exc # ""
             THEN [mine EXCEPT !.pc = "done", !.ret = Raised(converted.exc)]
             ELSE IF num_hosts = 0 \/ num_hosts > 1
             THEN [mine EXCEPT !.pc = "done", !.ret = ReturnedFalse]
             ELSE IF classified.exc # ""
             THEN [mine EXCEPT !.pc = "done", !.ret = Raised(classified.exc)]
             ELSE [mine EXCEPT !.pc = "poke", !.row = hosts[1],
                               !.kind = classified.kind]]
       /\ UNCHANGED <<last_update, dns, changes, others>>

\* hosts[0].poke(kind)
Poke(p) ==
    /\ procs[p].pc = "poke"
    /\ last_update' = poke(procs[p].row, procs[p].kind)
    /\ procs' = [procs EXCEPT ![p].pc = "update"]
    /\ UNCHANGED <<dns, changes, others>>

\* Faulty variant of Update: an address the zone already holds is not
\* detected, the call is answered like a change.
Update_blind(p) ==
    LET me == procs[p]
    IN /\ me.pc = "update"
       /\ dns' = [dns EXCEPT ![me.hostname][me.kind] = me.ipaddr]
       /\ changes' = IF dns' # dns
                     THEN Append(changes, [proc |-> p, hostname |-> me.hostname,
                                           ipaddr |-> me.ipaddr])
                     ELSE changes
       /\ procs' = [procs EXCEPT ![p] =
             [me EXCEPT !.pc = "done",
                        !.seen = dns[me.hostname][me.kind],
                        !.ret = update_response("", me.ipaddr)]]
       /\ UNCHANGED <<last_update, others>>

\* update(fqdn, ipaddr) and the answer that follows from how it ended.
Update(p) ==
    LET me == procs[p]
    IN /\ me.pc = "update"
       /\ \E outcome \in update(me.hostname, me.ipaddr) :
             /\ dns' = outcome.zone
             /\ changes' = IF outcome.exc = ""
                           THEN Append(changes, [proc |-> p, hostname |-> me.hostname,
                                                 ipaddr |-> me.ipaddr])
                           ELSE changes
             /\ procs' = [procs EXCEPT ![p] =
                   [me EXCEPT !.pc = "done",
                              !.seen = dns[me.hostname][me.kind],
                              !.ret = update_response(outcome.exc, me.ipaddr)]]
       /\ UNCHANGED <<last_update, others>>

InitConc ==
    /\ present \in Directories
    /\ CoreInit
    /\ AuxInit

NextConc ==
    \/ \E p \in Procs, h \in Fqdns, ip \in ConcIps : Lookup(p, h, ip)
    \/ \E p \in Procs : Poke(p)
    \/ \E p \in Procs : Update(p)

SpecConc == InitConc /\ [][NextConc]_vars

-----------------------------------------------------------------------------
\* Predicates on the request handled last.
IsNic == request.view = "NicUpdateView"
IsAuthorized == request.view = "AuthorizedNicUpdateView"
ReqAuth == request.META.HTTP_AUTHORIZATION
ReqCred == cred[1]
ReqAgent == GetDefault(request.META.HTTP_USER_AGENT, "unknown")
HasCredentials == cred # None /\ ReqCred.exc = "" /\ ~ReqCred.none
Verified == HasCredentials /\ check_api_auth(ReqCred.username, ReqCred.password)
ValidLiterals == IPv4Literals \cup IPv6Literals

ChallengeHeader == "Basic realm=\"authenticate to update DNS\""
IsChallenge(r, body) ==
    /\ r.type = "HttpResponse"
    /\ r.status_code = 401
    /\ r.content_type = "text/plain"
    /\ r.content = body
    /\ r.www_authenticate = ChallengeHeader
IsPlain200(r, body) ==
    /\ r.type = "HttpResponse"
    /\ r.status_code = 200
    /\ r.content_type = "text/plain"
    /\ r.content = body
    /\ r.www_authenticate = ""

\* The dispatch of the last request: its target rows and the family of its
\* address.
DispHosts == filter_by_fqdn(disp[1].hostname, None)
DispConverted == str(disp[1].ipaddr)
DispClass == check_ip(DispConverted.val, Kinds)
ReachedClassify ==
    disp # None /\ DispConverted.exc = "" /\ Len(DispHosts) = 1
ReachedPoke == ReachedClassify /\ DispClass.exc = ""

-----------------------------------------------------------------------------
\* C1: dispatcher idempotence.  A dispatch _update(h, ip) to a hostname with
\* exactly one row and a valid literal ip answers "good <ip>" when the zone
\* held another address, and a second dispatch of the same (h, ip) right after
\* one answered good or nochg answers "nochg <ip>" (the update call itself
\* not failing for another reason).
C1_First ==
    \A h \in Fqdns, ip \in ValidLiterals :
        ( /\ disp' = Some([hostname |-> h, ipaddr |-> ip])
          /\ Len(filter_by_fqdn(h, None)) = 1
          /\ dns[h][check_ip(ip, Kinds).kind] # ip
          /\ ret' # Raised("UpdateFailure") )
        => ret' = Response("good " \o ip)
C1_Second ==
    \A h \in Fqdns, ip \in ValidLiterals :
        ( /\ disp = Some([hostname |-> h, ipaddr |-> ip])
          /\ ret \in {Response("good " \o ip), Response("nochg " \o ip)}
          /\ disp' = disp
          /\ ret' # Raised("UpdateFailure") )
        => ret' = Response("nochg " \o ip)
C1_Idempotence == [][C1_First /\ C1_Second]_vars

\* Witness of C1: the second of two requests repeats the first one's dispatch
\* and is answered nochg (the zone was empty at the start, so the first one
\* was answered good).
C1_Witness ==
    /\ nreq = 2
    /\ disp # None
    /\ ret = Response("nochg " \o disp[1].ipaddr)
    /\ dns[disp[1].hostname][DispClass.kind] = disp[1].ipaddr

\* C2: NicUpdateView answers a request without Authorization header with
\* 401 noauth and one whose credentials fail check_api_auth with 401 badauth,
\* both with the Basic challenge header, and calls neither poke nor update.
C2_Challenge ==
    IsNic =>
        /\ ReqAuth = None =>
              IsChallenge(ret, "noauth") /\ calls = <<>> /\ disp = None
        /\ (HasCredentials /\ ~Verified) =>
              IsChallenge(ret, "badauth") /\ calls = <<>> /\ disp = None

C2_Witness ==
    /\ IsNic /\ HasCredentials /\ ~Verified
    /\ Len(filter_by_fqdn(ReqCred.username, None)) = 1
    /\ ret.content = "badauth"

\* C3: NicUpdateView answers verified credentials with a blacklisted agent
\* with 200 badagent; poke and update are not called and the directory and
\* the zone stay as they were.
C3_Step ==
    (IsNic /\ Verified /\ ReqAgent \in BAD_AGENTS)' =>
        /\ IsPlain200(ret', "badagent")
        /\ calls' = <<>>
        /\ disp' = None
        /\ UNCHANGED <<present, last_update, dns>>
C3_BadAgent == [][C3_Step]_vars

C3_Witness ==
    IsNic /\ Verified /\ ReqAgent \in BAD_AGENTS /\ ret.content = "badagent"

\* C4: a dispatch that finds exactly one row and classifies the address calls
\* poke exactly once, on that row, with the classified family, and before the
\* update call, whether the update changes the zone or signals no change.
C4_PokeOnceBeforeUpdate ==
    ReachedPoke =>
        /\ Cardinality({i \in 1..Len(calls) : calls[i].op = "poke"}) = 1
        /\ Cardinality({i \in 1..Len(calls) : calls[i].op = "update"}) = 1
        /\ calls[1] = [op |-> "poke", rec |-> DispHosts[1],
                       hostname |-> disp[1].hostname, arg |-> DispClass.kind]
        /\ calls[2].op = "update"
        /\ last_update[DispHosts[1]][DispClass.kind] = nreq

C4_Witness ==
    /\ ReachedPoke
    /\ ret = Response("nochg " \o disp[1].ipaddr)
    /\ Len(calls) = 2

\* C5: an address that classifies as neither family never reaches the update
\* call: every update call carries a literal that classifies, and a dispatch
\* whose classification fails calls neither update nor poke.
C5_Step ==
    /\ \A i \in 1..Len(calls') : calls'[i].op = "update" =>
            check_ip(calls'[i].arg, Kinds).exc = ""
    /\ (ReachedClassify /\ DispClass.exc # "")' =>
            /\ calls' = <<>>
            /\ ret' = Raised("InvalidIPError")
            /\ UNCHANGED <<last_update, dns>>
C5_UnclassifiedNeverUpdated == [][C5_Step]_vars

C5_Witness ==
    /\ ReachedClassify
    /\ DispClass.exc # ""
    /\ ret = Raised("InvalidIPError")

\* C6 as claimed: a dispatch that finds zero or several rows for the hostname
\* calls neither poke nor update and the handler answers 200 nohost.
C6_Claim ==
    (disp # None /\ DispConverted.exc = "" /\ Len(DispHosts) # 1) =>
        /\ calls = <<>>
        /\ IsPlain200(ret, "nohost")

\* C7 as claimed: in NicUpdateView an Authorization header that yields no
\* credentials (other scheme, invalid base64, no colon) ends with the 401
\* Basic challenge and no poke or update.
C7_Claim ==
    (IsNic /\ cred # None /\ (ReqCred.exc # "" \/ ReqCred.none)) =>
        /\ ret.type = "HttpResponse"
        /\ ret.status_code = 401
        /\ ret.www_authenticate = ChallengeHeader
        /\ calls = <<>>

\* C8: AuthorizedNicUpdateView answers a request without hostname, and one
\* whose hostname does not have exactly one row owned by the requesting user,
\* with 200 nohost; poke and update are not called and nothing is changed.
OwnedRows(user, hostname) ==
    {r \in present : HostRow[r].fqdn = hostname /\ HostRow[r].created_by = user}
C8_Step ==
    ( /\ IsAuthorized'
      /\ \/ request'.GET.hostname = None
         \/ Cardinality(OwnedRows(request'.user, request'.GET.hostname[1])) # 1 )
    =>  /\ IsPlain200(ret', "nohost")
        /\ calls' = <<>>
        /\ disp' = None
        /\ UNCHANGED <<present, last_update, dns>>
C8_NotOwned == [][C8_Step]_vars

\* Witness of C8: the hostname has a row, owned by another user.
C8_Witness ==
    /\ IsAuthorized
    /\ request.GET.hostname # None
    /\ OwnedRows(request.user, request.GET.hostname[1]) = {}
    /\ filter_by_fqdn(request.GET.hostname[1], None) # <<>>
    /\ ret.content = "nohost"

\* C9 as claimed: every handled request ends with a text/plain response whose
\* body is one of the vocabulary tokens (requests in which the update call
\* itself fails are left aside).
Vocabulary ==
    {"nohost", "badagent", "noauth", "badauth"}
    \cup {"good " \o ip : ip \in MyIps \cup RemoteAddrs}
    \cup {"nochg " \o ip : ip \in MyIps \cup RemoteAddrs}
C9_Claim ==
    (nreq > 0 /\ ret # Raised("UpdateFailure")) =>
        /\ ret.type = "HttpResponse"
        /\ ret.content_type = "text/plain"
        /\ ret.content \in Vocabulary

\* C10: existence non-disclosure in NicUpdateView.  Whether the FQDN of the
\* credentials has no row, several rows, or one row whose secret the password
\* does not match, the response is the same value (status, header, body),
\* one that depends on neither the directory nor the request.
CredRows == {r \in present : HostRow[r].fqdn = ReqCred.username}
Unregistered == CredRows = {}
Duplicated == Cardinality(CredRows) > 1
SecretMismatch ==
    /\ Cardinality(CredRows) = 1
    /\ \A r \in CredRows : make_password(ReqCred.password) # update_secret(r)
C10_NonDisclosure ==
    (IsNic /\ HasCredentials /\ (Unregistered \/ Duplicated \/ SecretMismatch)) =>
        /\ ret = [type |-> "HttpResponse", status_code |-> 401,
                  content |-> "badauth", content_type |-> "text/plain",
                  www_authenticate |-> ChallengeHeader]
        /\ calls = <<>>
        /\ disp = None

\* Witness of C10: the FQDN is duplicated and the password is the secret of
\* one of its rows.
C10_Witness ==
    /\ IsNic /\ HasCredentials /\ Duplicated
    /\ \E r \in CredRows : make_password(ReqCred.password) = update_secret(r)
    /\ ret.content = "badauth"

-----------------------------------------------------------------------------
\* C13: in NicUpdateView, once the credentials verify (and the agent is not
\* blacklisted), the update is dispatched to the authenticated username when
\* the hostname parameter is omitted and to the given hostname when it is
\* present.
C13_Target ==
    IF request.GET.hostname = None THEN ReqCred.username
    ELSE request.GET.hostname[1]
C13_HostnameDefault ==
    (IsNic /\ Verified /\ ReqAgent \notin BAD_AGENTS) =>
        /\ disp # None
        /\ disp[1].hostname = C13_Target
        /\ \A i \in 1..Len(calls) : calls[i].hostname = C13_Target

\* Witness of C13: hostname is present and is not the username.
C13_Witness ==
    /\ IsNic /\ Verified
    /\ request.GET.hostname # None
    /\ request.GET.hostname[1] # ReqCred.username
    /\ disp # None
    /\ disp[1].hostname = request.GET.hostname[1]

\* C14: the address dispatched, handed to the update call and echoed after
\* good/nochg is the myip parameter as given, or else the connection address:
\* NicUpdateView falls back only when myip is omitted,
\* AuthorizedNicUpdateView when it is omitted or empty.
C14_Expected ==
    LET myip == request.GET.myip
        fallback == IF IsNic THEN myip = None
                    ELSE myip = None \/ myip = Some("")
    IN IF fallback THEN request.META.REMOTE_ADDR ELSE myip[1]
C14_IpSource ==
    disp # None =>
        /\ disp[1].ipaddr = C14_Expected
        /\ \A i \in 1..Len(calls) :
              calls[i].op = "update" => calls[i].arg = C14_Expected
        /\ (ret.type = "HttpResponse") =>
              ret.content \in {"good " \o C14_Expected, "nochg " \o C14_Expected}

\* Witness of C14: an empty myip in AuthorizedNicUpdateView is replaced by
\* the connection address, which is updated and echoed.
C14_Witness ==
    /\ IsAuthorized
    /\ request.GET.myip = Some("")
    /\ disp # None
    /\ ret = Response("good " \o request.META.REMOTE_ADDR)

\* C16 as claimed: in NicUpdateView every poke and every update call is on the
\* host whose secret check_api_auth verified, whatever the hostname parameter.
C16_Claim ==
    (IsNic /\ Verified) =>
        \A i \in 1..Len(calls) : calls[i].hostname = ReqCred.username

\* C17: when the update call fails with another failure than no-change, the
\* dispatcher has called it exactly once, the failure leaves the view, the
\* zone is as before, and the poke of that request stays on the row.  (A
\* good answer goes with a changed zone and a nochg answer with a zone that
\* already held the address, so a failure is answered by neither.)
C17_Step ==
    /\ ret' = Raised("UpdateFailure") =>
          /\ ReachedPoke'
          /\ Cardinality({i \in 1..Len(calls') : calls'[i].op = "update"}) = 1
          /\ calls'[1].op = "poke"
          /\ dns' = dns
          /\ last_update'[calls'[1].rec][calls'[1].arg] = nreq'
          /\ last_update[calls'[1].rec][calls'[1].arg] < nreq'
    /\ (calls' # <<>>) =>
          LET h == disp'[1].hostname
              ip == disp'[1].ipaddr
              k == check_ip(ip, Kinds).kind
          IN \/ ret' = Raised("UpdateFailure")
             \/ ret' = Response("good " \o ip) /\ dns[h][k] # ip /\ dns'[h][k] = ip
             \/ ret' = Response("nochg " \o ip) /\ dns[h][k] = ip /\ dns' = dns
C17_FailurePropagates == [][C17_Step]_vars

C17_Witness ==
    /\ ret = Raised("UpdateFailure")
    /\ Len(calls) = 2
    /\ last_update[calls[1].rec][calls[1].arg] = nreq
    /\ dns[disp[1].hostname][calls[1].arg] # disp[1].ipaddr

-----------------------------------------------------------------------------
\* C11: check_api_auth is false when no row has the FQDN, false when two or
\* more have it (also when the password is right for one of them), and for
\* exactly one row it is the result of verifying the password against that
\* row's stored hash; the directory is left as it was.
FqdnRows(fqdn) == {r \in present : HostRow[r].fqdn = fqdn}
C11_Step ==
    (probe'.fn = "check_api_auth") =>
        LET rows == FqdnRows(probe'.a)
        IN /\ Cardinality(rows) = 0 => probe'.result = FALSE
           /\ Cardinality(rows) >= 2 => probe'.result = FALSE
           /\ \A r \in rows :
                 rows = {r} =>
                    probe'.result = (make_password(probe'.b) = <<"hash", HostRow[r].secret>>)
           /\ present' = present
C11_ApiAuth == [][C11_Step]_vars

\* Witness of C11: two rows share the FQDN, the password is right for one of
\* them, and the answer is false.
C11_Witness ==
    /\ probe.fn = "check_api_auth"
    /\ Cardinality(FqdnRows(probe.a)) >= 2
    /\ \E r \in FqdnRows(probe.a) : HostRow[r].secret = probe.b
    /\ probe.result = FALSE

\* C12: check_session_auth is true exactly when one row matches both the
\* hostname and the owner, false for none and for two or more; the directory
\* is left as it was.
C12_Step ==
    (probe'.fn = "check_session_auth") =>
        /\ probe'.result = (Cardinality(OwnedRows(probe'.a, probe'.b)) = 1)
        /\ present' = present
C12_SessionAuth == [][C12_Step]_vars

\* Witness of C12: two rows of the same owner share the hostname and the
\* answer is false.
C12_Witness ==
    /\ probe.fn = "check_session_auth"
    /\ Cardinality(OwnedRows(probe.a, probe.b)) = 2
    /\ probe.result = FALSE

-----------------------------------------------------------------------------
\* C15: DetectIpView with a secret that addresses a session and a valid
\* connecting address of family f sets f and f_timestamp in that session and
\* nothing else: the session's other keys, every other session (the
\* requester's own included) and the host directory stay as they were; the
\* response is 204 with an empty body.
C15_Step ==
    ( /\ hit'.view = "DetectIpView"
      /\ Exists(hit'.secret)
      /\ hit'.REMOTE_ADDR \in IPv4Literals \cup IPv6Literals ) =>
        LET t == hit'.secret[1]
            f == IF hit'.REMOTE_ADDR \in IPv4Literals THEN "ipv4" ELSE "ipv6"
            written == {f, f \o "_timestamp"}
        IN /\ sessions'[t] # None
           /\ sessions'[t][1][f] = Some(hit'.REMOTE_ADDR)
           /\ sessions'[t][1][f \o "_timestamp"] = Some(clock')
           /\ clock' > clock
           /\ \A g \in SessionFields \ written : sessions'[t][1][g] = sessions[t][1][g]
           /\ \A k \in SessionKeys \ {t} : sessions'[k] = sessions[k]
           /\ present' = present
           /\ hit'.response.type = "HttpResponse"
           /\ hit'.response.status_code = 204
           /\ hit'.response.content = ""
C15_DetectFrame == [][C15_Step]_vars

\* Witness of C15: a detection over IPv6 for session k1, sent with the cookie
\* of session k2, after an IPv4 detection for k1.
C15_Witness ==
    /\ hit.view = "DetectIpView"
    /\ hit.secret = Some("k1")
    /\ hit.cookie = Some("k2")
    /\ hit.response.status_code = 204
    /\ sessions["k1"][1]["ipv6"] = Some(hit.REMOTE_ADDR)
    /\ sessions["k1"][1]["ipv6_timestamp"] = Some(clock)
    /\ sessions["k1"][1]["ipv4"] # None
    /\ sessions["k2"][1]["ipv6"] = None

\* C19: AjaxGetIps on a session answers with the addresses DetectIpView wrote
\* last into that session, one per family; as long as one of the keys ipv4
\* and ipv6 is missing from the session it raises and sends no payload.
C19_Payloads(a, b) ==
    { "{\"ipv4\": \"" \o a \o "\", \"ipv6\": \"" \o b \o "\"}",
      "{\"ipv6\": \"" \o b \o "\", \"ipv4\": \"" \o a \o "\"}" }
C19_ReadBack ==
    (hit.view = "AjaxGetIps") =>
        LET known == hit.cookie # None /\ sessions[hit.cookie[1]] # None
            S == IF known THEN sessions[hit.cookie[1]][1] ELSE EmptySession
            last == IF known THEN detected[hit.cookie[1]]
                    ELSE [kind \in Kinds |-> None]
        IN IF S["ipv4"] = None \/ S["ipv6"] = None
              \/ last["ipv4"] = None \/ last["ipv6"] = None
           THEN hit.response.type = "raise"
           ELSE /\ hit.response.type = "HttpResponse"
                /\ hit.response.status_code = 200
                /\ hit.response.content_type = "application/json"
                /\ hit.response.content \in C19_Payloads(last["ipv4"][1], last["ipv6"][1])

\* Witness of C19: both families were detected for the session, IPv4 last and
\* after an earlier detection, and the read-back answers.
C19_Witness ==
    /\ hit.view = "AjaxGetIps"
    /\ hit.cookie = Some("k1")
    /\ hit.response.status_code = 200
    /\ sessions["k1"][1]["ipv6_timestamp"] = Some(1)
    /\ sessions["k1"][1]["ipv4_timestamp"] = Some(MaxDetect)
    /\ hit.response.content \in C19_Payloads("192.0.2.2", "2001:db8::1")

-----------------------------------------------------------------------------
\* C18: whatever the interleaving of concurrent dispatches, the zone holds
\* for a host its initial value or the address of a request answered good;
\* every good answer goes with exactly one change of the zone, to that
\* address, and every change with a good answer; a request is answered nochg
\* only if the zone held its address when its update call ran.
Good(p) == procs[p].ret = Response("good " \o procs[p].ipaddr)
Nochg(p) == procs[p].ret = Response("nochg " \o procs[p].ipaddr)
ChangesOf(p) == {i \in 1..Len(changes) : changes[i].proc = p}
C18_Interleaving ==
    /\ \A h \in Fqdns, k \in Kinds :
          \/ dns[h][k] = NoIp
          \/ \E p \in Procs :
                Good(p) /\ procs[p].hostname = h /\ procs[p].ipaddr = dns[h][k]
    /\ \A p \in Procs :
          /\ Good(p) =>
                /\ Cardinality(ChangesOf(p)) = 1
                /\ \A i \in ChangesOf(p) :
                      /\ changes[i].ipaddr = procs[p].ipaddr
                      /\ changes[i].hostname = procs[p].hostname
                /\ procs[p].seen # procs[p].ipaddr
          /\ ~Good(p) => ChangesOf(p) = {}
          /\ Nochg(p) => procs[p].seen = procs[p].ipaddr
          /\ procs[p].ret.type = "HttpResponse" => Good(p) \/ Nochg(p)

\* Witness of C18: two contexts dispatched the same address to the same
\* host; one was answered good and the other nochg, with one change of the
\* zone.
C18_Witness ==
    /\ Good(1) /\ Nochg(2)
    /\ procs[1].hostname = procs[2].hostname
    /\ procs[1].ipaddr = procs[2].ipaddr
    /\ Len(changes) = 1

====
